---- MODULE Spec2Model ----
(***************************************************************************)
(* Model of getData-SST: the main script get_data_box.py driving           *)
(* funcs_data.py (check_data, get_data and its three strategies,           *)
(* get_1Dgrid).                                                            *)
(*                                                                         *)
(* The field file is read-only: it is a byte length num_bytes and the      *)
(* samples it holds.  Floating-point values of the coordinate generator    *)
(* are modelled as exact rationals <<numerator, denominator>>.             *)
(***************************************************************************)
EXTENDS Integers, Sequences, FiniteSets, TLC

(* ------------------------------ bounds --------------------------------- *)
\* full-grid extent of an axis: 1..MaxN
MaxN == 3
\* offset of an axis: 0..MaxOffset
MaxOffset == 1
\* number of extracted samples of an axis: 1..MaxCount
MaxCount == 2
\* subsampling rate of an axis: 1..MaxSkip
MaxSkip == 2
\* the file may miss up to MaxTrunc bytes, or hold up to MaxExtra bytes more
MaxTrunc == 1
MaxExtra == 1
\* a file handed to a direct call of get_data may miss up to MaxMissing samples
MaxMissing == 2

(* -------------------------- program constants -------------------------- *)
\* SSTData.nbyte
nbyte == 4
\* size of struct's "<f" and of np.float32
FloatSize == 4
\* --Lh default
LhDefault == 1
\* --Lv default is 0.5
LvDefault == <<1, 2>>
data_methods == {"seek", "memmap", "fromfile"}
Gravities == {"y", "z", "x"}

(* ------------------------------ helpers -------------------------------- *)
Min(a, b) == IF a < b THEN a ELSE b

RECURSIVE Gcd(_, _)
Gcd(a, b) == IF b = 0 THEN a ELSE Gcd(b, a % b)

\* rationals with a positive denominator, in lowest terms
Rat(p, q) == LET g == Gcd(IF p < 0 THEN -p ELSE p, q)
             IN  IF g = 0 THEN <<0, 1>> ELSE <<p \div g, q \div g>>
RAdd(a, b) == Rat(a[1] * b[2] + b[1] * a[2], a[2] * b[2])
RSub(a, b) == Rat(a[1] * b[2] - b[1] * a[2], a[2] * b[2])
RMul(a, b) == Rat(a[1] * b[1], a[2] * b[2])
RDivInt(a, n) == Rat(a[1], a[2] * n)
RInt(n) == <<n, 1>>
RLess(a, b) == a[1] * b[2] < b[1] * a[2]

\* index triples of an array of shape <<d0, d1, d2>>
Idx(shape) == (0 .. shape[1] - 1) \X (0 .. shape[2] - 1) \X (0 .. shape[3] - 1)

(* ---------------------------- the field file --------------------------- *)
\* the sample stored at flat index f; every sample differs from the others
\* and from the 0.0 of np.zeros
FileSample(f) == f + 1

\* file.read(n) after file.seek(pos, 0) on a file of nb bytes: the number of
\* bytes returned
ReadLen(pos, n, nb) == IF pos >= nb THEN 0 ELSE Min(n, nb - pos)

VARIABLES args, num_bytes, pc, raised, handles, reads, datacube, x, y, z

vars == <<args, num_bytes, pc, raised, handles, reads, datacube, x, y, z>>

(* ------------------------------ check_data ----------------------------- *)
\* funcs_data.py:28,30  int(num_bytes/nbyte), the number of counted samples
CountedSamples(nb) == nb \div nbyte

\* funcs_data.py:30  the test of check_data
SizeMatches(a, nb) == CountedSamples(nb) = a.nx * a.ny * a.nz

\* check_data that reports a mismatch without raising
check_data_noraise(a, nb) == [err |-> "none", open |-> 0]

\* check_data: what it raises ("none": it returns) and the file handles it
\* leaves open.  The handle is opened on line 24 and closed on line 35, which
\* the raise of line 34 skips.
check_data(a, nb) ==
    IF SizeMatches(a, nb)
    THEN [err |-> "none", open |-> 0]
    ELSE [err |-> "Exception", open |-> 1]

(* ------------------------------- arrays -------------------------------- *)
\* no array: the call raised
NoCube == [shape |-> <<>>, val |-> <<>>]

\* flat.reshape(d0, d1, d2) of a 1-D array held as a sequence (C order)
Reshape(flat, d0, d1, d2) ==
    [shape |-> <<d0, d1, d2>>,
     val   |-> [t \in Idx(<<d0, d1, d2>>) |-> flat[(t[1] * d1 + t[2]) * d2 + t[3] + 1]]]

\* c.transpose(2, 1, 0)
Transpose210(c) ==
    LET sh == <<c.shape[3], c.shape[2], c.shape[1]>>
    IN  [shape |-> sh, val |-> [t \in Idx(sh) |-> c.val[<<t[3], t[2], t[1]>>]]]

(* ---------------------------- address mapper --------------------------- *)
\* funcs_data.py:122-126 and 227-231  initial corner of the cuboid, in bytes
InitPos(a) ==
    LET nxoff == a.nxoffset * nbyte
        nyoff == a.nyoffset * (a.nx * nbyte)
        nzoff == a.nzoffset * (a.nx * a.ny * nbyte)
    IN  nzoff + nyoff + nxoff

\* funcs_data.py:140 and 240  shift of one extracted row
RowShift(a) == (a.nx * a.nyskip) * nbyte

\* funcs_data.py:141 and 241  shift of one extracted slice
SliceShift(a) == ((a.nx * a.ny) * a.nzskip) * nbyte

(* ------------------------ get_data_single_points ----------------------- *)
\* SeekPos without the subsampling rate of x
SeekPos_noskip(a, i, nxshift, nyshift) ==
    InitPos(a) + (i * nbyte) + nxshift + nyshift

\* funcs_data.py:136  position of the read of sample i of the current row
SeekPos(a, i, nxshift, nyshift) ==
    InitPos(a) + ((i * a.nxskip) * nbyte) + nxshift + nyshift

\* funcs_data.py:138  struct.unpack("<f", binary.read(nbyte)) at pos: the
\* sample there, or -1 when the bytes read are not the 4 bytes of a float
UnpackAt(pos, nb) ==
    IF ReadLen(pos, nbyte, nb) = FloatSize THEN FileSample(pos \div FloatSize) ELSE -1

\* the step to the next slice that keeps the row shift of the slice before
SeekNextSlice_noreset(a, s) ==
    [s EXCEPT !.k = @ + 1, !.j = 0, !.i = 0, !.nyshift = @ + SliceShift(a)]

\* funcs_data.py:141, 132-133  end of a slice: the slice shift grows, and the
\* next slice starts with the row shift at 0
SeekNextSlice(a, s) ==
    [s EXCEPT !.k = @ + 1, !.j = 0, !.i = 0, !.nxshift = 0,
              !.nyshift = @ + SliceShift(a)]

\* funcs_data.py:140, 134  end of a row: the row shift grows
SeekNextRow(a, s) ==
    [s EXCEPT !.j = @ + 1, !.i = 0, !.nxshift = @ + RowShift(a)]

\* funcs_data.py:132-141  the three nested loops, from loop state s on
RECURSIVE SeekLoop(_, _, _)
SeekLoop(a, nb, s) ==
    IF s.k = a.nzsl THEN
        [err |-> "none", data |-> s.data, reads |-> s.reads]
    ELSE IF s.j = a.nysl THEN
        SeekLoop(a, nb, SeekNextSlice(a, s))
    ELSE IF s.i = a.nxsl THEN
        SeekLoop(a, nb, SeekNextRow(a, s))
    ELSE
        LET pos == SeekPos(a, s.i, s.nxshift, s.nyshift)
            v   == UnpackAt(pos, nb)
            rd  == Append(s.reads, <<pos, nbyte>>)
        IN  IF v = -1
            THEN [err |-> "struct.error", data |-> s.data, reads |-> rd]
            ELSE SeekLoop(a, nb, [s EXCEPT !.i = @ + 1, !.m = @ + 1,
                                           !.data[s.m + 1] = v, !.reads = rd])

\* get_data_single_points: the cube it returns or the error it raises, the
\* reads it issued and the handles it leaves open (binary.close() of line 142
\* is not reached when line 138 raises)
get_data_single_points(a, nb) ==
    LET r == SeekLoop(a, nb, [k |-> 0, j |-> 0, i |-> 0, m |-> 0, nxshift |-> 0,
                              nyshift |-> 0,
                              data |-> [n \in 1 .. a.nxsl * a.nysl * a.nzsl |-> 0],
                              reads |-> <<>>])
    IN  IF r.err = "none"
        THEN [err |-> "none", reads |-> r.reads, open |-> 0,
              cube |-> Transpose210(Reshape(r.data, a.nzsl, a.nysl, a.nxsl))]
        ELSE [err |-> r.err, reads |-> r.reads, open |-> 1, cube |-> NoCube]

(* ---------------------------- get_data_memmap -------------------------- *)
\* the indices that the slice start:stop:step selects on an axis of n entries
\* (Python clamps start and stop to n)
SliceIndices(start, stop, step, n) ==
    LET lo  == Min(start, n)
        hi  == Min(stop, n)
        len == IF hi > lo THEN ((hi - lo - 1) \div step) + 1 ELSE 0
    IN  [t \in 1 .. len |-> lo + (t - 1) * step]

\* funcs_data.py:185-187  the slice of one axis
AxisSlice(offset, sl, skip, n) == SliceIndices(offset, offset + (sl * skip), skip, n)

\* funcs_data.py:180  flat index of data_memmap[zi, yi, xi], shape (nz, ny, nx)
MemmapIndex(a, zi, yi, xi) == (zi * a.ny + yi) * a.nx + xi

\* get_data_memmap: np.memmap raises ValueError when the file is shorter than
\* the shape asks; the mapping is closed on line 195 after the copy
get_data_memmap(a, nb) ==
    IF nb < a.nz * a.ny * a.nx * FloatSize
    THEN [err |-> "ValueError", reads |-> <<>>, open |-> 0, cube |-> NoCube]
    ELSE
        LET zs == AxisSlice(a.nzoffset, a.nzsl, a.nzskip, a.nz)
            ys == AxisSlice(a.nyoffset, a.nysl, a.nyskip, a.ny)
            xs == AxisSlice(a.nxoffset, a.nxsl, a.nxskip, a.nx)
            sh == <<Len(zs), Len(ys), Len(xs)>>
            at(t) == MemmapIndex(a, zs[t[1] + 1], ys[t[2] + 1], xs[t[3] + 1])
            \* sub_cube.copy() reads the selected elements in C order
            flat == [n \in 1 .. Len(zs) * Len(ys) * Len(xs) |->
                        at(<<(n - 1) \div (Len(ys) * Len(xs)),
                             ((n - 1) \div Len(xs)) % Len(ys),
                             (n - 1) % Len(xs)>>)]
            sub_cube == [shape |-> sh, val |-> [t \in Idx(sh) |-> FileSample(at(t))]]
        IN  [err |-> "none", open |-> 0, cube |-> Transpose210(sub_cube),
             reads |-> [n \in 1 .. Len(flat) |-> <<flat[n] * FloatSize, FloatSize>>]]

(* --------------------------- get_data_fromfile ------------------------- *)
\* np.fromfile(loadpath, dtype=np.float32, count=count, offset=pos): the
\* items read, as many as the file holds from pos on and at most count
FromFile(count, pos, nb) ==
    LET avail == IF pos >= nb THEN 0 ELSE (nb - pos) \div FloatSize
    IN  [t \in 1 .. Min(count, avail) |-> FileSample((pos \div FloatSize) + t - 1)]

\* the first values of the block instead of every step-th one
EveryNth_contiguous(block, step) ==
    [t \in 1 .. ((Len(block) + step - 1) \div step) |-> block[t]]

\* block[::step]
EveryNth(block, step) ==
    [t \in 1 .. ((Len(block) + step - 1) \div step) |-> block[(t - 1) * step + 1]]

\* funcs_data.py:239  the values of one row
RowValues(a, pos, nb) == EveryNth(FromFile(a.nxsl * a.nxskip, pos, nb), a.nxskip)

\* funcs_data.py:239  datacube[:, j, k] = row: a row of one value is broadcast
AssignRow(cube, a, j, k, row) ==
    [cube EXCEPT !.val = [t \in Idx(cube.shape) |->
        IF t[2] = j /\ t[3] = k
        THEN (IF Len(row) = 1 THEN row[1] ELSE row[t[1] + 1])
        ELSE @[t]]]

\* funcs_data.py:235-241  the two nested loops, from loop state s on
RECURSIVE FromfileLoop(_, _, _)
FromfileLoop(a, nb, s) ==
    IF s.k = a.nzsl THEN
        [err |-> "none", cube |-> s.cube, reads |-> s.reads]
    ELSE IF s.j = a.nysl THEN
        FromfileLoop(a, nb, [s EXCEPT !.k = @ + 1, !.j = 0, !.nxshift = 0,
                                      !.nyshift = @ + SliceShift(a)])
    ELSE
        LET pos == InitPos(a) + s.nxshift + s.nyshift
            row == RowValues(a, pos, nb)
            rd  == Append(s.reads, <<pos, (a.nxsl * a.nxskip) * FloatSize>>)
        IN  IF Len(row) # a.nxsl /\ Len(row) # 1
            THEN [err |-> "ValueError", cube |-> NoCube, reads |-> rd]
            ELSE FromfileLoop(a, nb, [s EXCEPT !.j = @ + 1,
                                               !.nxshift = @ + RowShift(a),
                                               !.cube = AssignRow(@, a, s.j, s.k, row),
                                               !.reads = rd])

\* get_data_fromfile: np.fromfile opens and closes the file on each call
get_data_fromfile(a, nb) ==
    LET sh == <<a.nxsl, a.nysl, a.nzsl>>
        r  == FromfileLoop(a, nb, [k |-> 0, j |-> 0, nxshift |-> 0, nyshift |-> 0,
                                   cube |-> [shape |-> sh, val |-> [t \in Idx(sh) |-> 0]],
                                   reads |-> <<>>])
    IN  [err |-> r.err, reads |-> r.reads, open |-> 0, cube |-> r.cube]

(* -------------------------------- get_data ----------------------------- *)
\* get_data that falls back to the memmap strategy for any other method
get_data_default(method, a, nb) ==
    IF method = "seek" THEN get_data_single_points(a, nb)
    ELSE IF method = "fromfile" THEN get_data_fromfile(a, nb)
    ELSE get_data_memmap(a, nb)

\* funcs_data.py:82-93
get_data(method, a, nb) ==
    IF method = "seek" THEN get_data_single_points(a, nb)
    ELSE IF method = "memmap" THEN get_data_memmap(a, nb)
    ELSE IF method = "fromfile" THEN get_data_fromfile(a, nb)
    ELSE [err |-> "NotImplementedError", reads |-> <<>>, open |-> 0, cube |-> NoCube]

(* ------------------------------- get_1Dgrid ---------------------------- *)
\* np.linspace(start, stop, num): num = 1 gives the start alone; otherwise
\* start + i*step with step = (stop - start)/(num - 1), the last set to stop
Linspace(start, stop, num) ==
    IF num = 1 THEN <<start>>
    ELSE LET step == RDivInt(RSub(stop, start), num - 1)
         IN  [t \in 1 .. num |->
                 IF t = num THEN stop ELSE RAdd(start, RMul(RInt(t - 1), step))]

\* get_1Dgrid ending at the position of the last sample
get_1Dgrid_lastsample(Lh, nx, nxoffset, nxsl, nxskip) ==
    LET dx  == RDivInt(Lh, nx)
        xin == RMul(dx, RInt(nxoffset))
        xfi == RAdd(xin, RMul(dx, RInt((nxsl - 1) * nxskip)))
    IN  Linspace(xin, xfi, nxsl)

\* get_1Dgrid whose end leaves out the start
get_1Dgrid_nostart(Lh, nx, nxoffset, nxsl, nxskip) ==
    LET dx  == RDivInt(Lh, nx)
        xin == RMul(dx, RInt(nxoffset))
        xfi == RMul(dx, RInt(nxsl * nxskip))
    IN  Linspace(xin, xfi, nxsl)

\* funcs_data.py:52-56
get_1Dgrid(Lh, nx, nxoffset, nxsl, nxskip) ==
    LET dx  == RDivInt(Lh, nx)
        xin == RMul(dx, RInt(nxoffset))
        xfi == RAdd(xin, RMul(dx, RInt(nxsl * nxskip)))
    IN  Linspace(xin, xfi, nxsl)

(* --------------------------- the main script --------------------------- *)
\* get_data_box.py:39-69  the parsed arguments the run depends on
Args ==
    [method : data_methods, gravity : Gravities,
     Lh : {RInt(LhDefault)}, Lv : {LvDefault},
     nx : 1 .. MaxN, ny : 1 .. MaxN, nz : 1 .. MaxN,
     nxsl : 1 .. MaxCount, nysl : 1 .. MaxCount, nzsl : 1 .. MaxCount,
     nxoffset : 0 .. MaxOffset, nyoffset : 0 .. MaxOffset, nzoffset : 0 .. MaxOffset,
     nxskip : 1 .. MaxSkip, nyskip : 1 .. MaxSkip, nzskip : 1 .. MaxSkip]

\* the byte lengths of the file that the run of arguments a may find
FileLengths(a) ==
    {nb \in (a.nx * a.ny * a.nz * nbyte - MaxTrunc) .. (a.nx * a.ny * a.nz * nbyte + MaxExtra) :
        nb >= 0}

\* get_data_box.py:83  SSTData(args); nothing is opened or read yet
Init ==
    /\ args \in Args
    /\ num_bytes \in FileLengths(args)
    /\ pc = "start"
    /\ raised = "none"
    /\ handles = 0
    /\ reads = <<>>
    /\ datacube = NoCube
    /\ x = <<>>
    /\ y = <<>>
    /\ z = <<>>

\* get_data_box.py:85  data_sample._check_data()
CheckData ==
    /\ pc = "start"
    /\ LET r == check_data(args, num_bytes)
       IN  /\ pc' = IF r.err = "none" THEN "checked" ELSE "check_failed"
           /\ raised' = r.err
           /\ handles' = handles + r.open
    /\ UNCHANGED <<args, num_bytes, reads, datacube, x, y, z>>

\* get_data_box.py:87  datacube = data_sample._get_data()
GetData ==
    /\ pc = "checked"
    /\ LET r == get_data(args.method, args, num_bytes)
       IN  /\ pc' = IF r.err = "none" THEN "extracted" ELSE "get_failed"
           /\ raised' = r.err
           /\ handles' = handles + r.open
           /\ reads' = reads \o r.reads
           /\ datacube' = r.cube
    /\ UNCHANGED <<args, num_bytes, x, y, z>>

\* get_data_box.py:91-107  the three coordinate axes
Grid ==
    /\ pc = "extracted"
    /\ x' = get_1Dgrid(args.Lh, args.nx, args.nxoffset, args.nxsl, args.nxskip)
    /\ IF args.gravity = "y" THEN
           /\ y' = get_1Dgrid(args.Lv, args.ny, args.nyoffset, args.nysl, args.nyskip)
           /\ z' = get_1Dgrid(args.Lh, args.nz, args.nzoffset, args.nzsl, args.nzskip)
           /\ pc' = "done"
           /\ raised' = "none"
       ELSE IF args.gravity = "z" THEN
           /\ y' = get_1Dgrid(args.Lh, args.ny, args.nyoffset, args.nysl, args.nyskip)
           /\ z' = get_1Dgrid(args.Lv, args.nz, args.nzoffset, args.nzsl, args.nzskip)
           /\ pc' = "done"
           /\ raised' = "none"
       ELSE
           /\ UNCHANGED <<y, z>>
           /\ pc' = "grid_failed"
           /\ raised' = "Exception"
    /\ UNCHANGED <<args, num_bytes, handles, reads, datacube>>

Next == CheckData \/ GetData \/ Grid

Spec == Init /\ [][Next]_vars

(* ======================= properties of the program ===================== *)
\* a subcube spec is valid on an axis when its last sample is inside the axis
ValidAxis(offset, sl, skip, n) ==
    offset >= 0 /\ sl >= 1 /\ skip >= 1 /\ offset + (sl - 1) * skip < n

ValidSpec(a) ==
    /\ ValidAxis(a.nxoffset, a.nxsl, a.nxskip, a.nx)
    /\ ValidAxis(a.nyoffset, a.nysl, a.nyskip, a.ny)
    /\ ValidAxis(a.nzoffset, a.nzsl, a.nzskip, a.nz)

\* flat index of the full-grid sample of logical index t = <<i, j, k>>
FlatOf(a, t) ==
    (a.nxoffset + t[1] * a.nxskip)
        + a.nx * ((a.nyoffset + t[2] * a.nyskip) + a.ny * (a.nzoffset + t[3] * a.nzskip))

\* the cube of shape (countX, countY, countZ) holding those samples
ExpectedCube(a) ==
    LET sh == <<a.nxsl, a.nysl, a.nzsl>>
    IN  [shape |-> sh, val |-> [t \in Idx(sh) |-> FileSample(FlatOf(a, t))]]

Extracted == pc \in {"extracted", "done", "grid_failed"}
AfterGetData == Extracted \/ pc = "get_failed"

\* C1: for a valid grid and a valid subcube spec the three strategies return
\* cubes of the same shape with equal elements at every index, and the cube
\* the run extracted is that cube.
C1_StrategyEquivalence ==
    (AfterGetData /\ ValidSpec(args)) =>
        LET s == get_data("seek", args, num_bytes)
            m == get_data("memmap", args, num_bytes)
            f == get_data("fromfile", args, num_bytes)
        IN  /\ s.err = "none" /\ m.err = "none" /\ f.err = "none"
            /\ s.cube.shape = m.cube.shape /\ m.cube.shape = f.cube.shape
            /\ \A t \in Idx(s.cube.shape) :
                   s.cube.val[t] = m.cube.val[t] /\ m.cube.val[t] = f.cube.val[t]
            /\ Extracted /\ datacube = s.cube

\* a block-sequential run with strides in every axis has extracted the cube
\* the other two strategies return
C1_Witness ==
    /\ pc = "extracted" /\ ValidSpec(args) /\ args.method = "fromfile"
    /\ args.nxsl = 2 /\ args.nysl = 2 /\ args.nzsl = 2
    /\ args.nxskip = 2 /\ args.nyskip = 2 /\ args.nzskip = 2
    /\ datacube = get_data("seek", args, num_bytes).cube
    /\ datacube = get_data("memmap", args, num_bytes).cube

\* C2: for a valid subcube spec the extracted cube has shape
\* (countX, countY, countZ) and its element [i, j, k] is the file sample at
\* flat index (offsetX + i*strideX) + nx*((offsetY + j*strideY) +
\* ny*(offsetZ + k*strideZ)), whichever strategy the run used.
C2_ElementIsFileSample ==
    (AfterGetData /\ ValidSpec(args)) =>
        /\ Extracted
        /\ datacube.shape = <<args.nxsl, args.nysl, args.nzsl>>
        /\ \A t \in Idx(datacube.shape) : datacube.val[t] = FileSample(FlatOf(args, t))

\* the full-resolution extraction of a 2 x 2 x 2 file by the seek strategy
C2_Witness ==
    /\ pc = "extracted" /\ args.method = "seek"
    /\ args.nx = 2 /\ args.ny = 2 /\ args.nz = 2
    /\ args.nxoffset = 0 /\ args.nyoffset = 0 /\ args.nzoffset = 0
    /\ args.nxsl = 2 /\ args.nysl = 2 /\ args.nzsl = 2
    /\ args.nxskip = 1 /\ args.nyskip = 1 /\ args.nzskip = 1
    /\ \A t \in Idx(<<2, 2, 2>>) : datacube.val[t] = FileSample(t[1] + 2 * (t[2] + 2 * t[3]))

\* C3: a subcube spec whose last sample is outside the axis on some axis is
\* rejected with an error by the strategy before any read of the file.
C3_OutOfRangeRejected ==
    (AfterGetData /\ ~ValidSpec(args)) => (pc = "get_failed" /\ reads = <<>>)

\* C4: check_data succeeds if and only if the byte length of the file is
\* nx*ny*nz*nbyte.
C4_AcceptsExactLengthOnly ==
    (pc # "start") =>
        ((pc # "check_failed") <=> (num_bytes = args.nx * args.ny * args.nz * nbyte))

\* C5: every file handle or mapping opened by check_data or by a strategy is
\* released before that call exits, on the paths where the call raises too.
C5_HandlesReleased == (pc # "start") => handles = 0

\* C6: an extraction call that returns returns the cube of shape
\* (countX, countY, countZ) whose every element was read from its own position
\* inside the file; a read that cannot deliver the samples makes the call fail.
C6_AllOrNothing ==
    Extracted =>
        /\ datacube.shape = <<args.nxsl, args.nysl, args.nzsl>>
        /\ \A t \in Idx(datacube.shape) :
               /\ FlatOf(args, t) < CountedSamples(num_bytes)
               /\ datacube.val[t] = FileSample(FlatOf(args, t))

\* C7: in the run of the main script no read of the field file is issued and
\* no extraction takes place unless check_data has succeeded on that file: a
\* size mismatch stops the run before _get_data.
C7_NoExtractionBeforeCheck ==
    /\ (reads # <<>> \/ AfterGetData) => SizeMatches(args, num_bytes)
    /\ ~SizeMatches(args, num_bytes) =>
           (pc \in {"start", "check_failed"} /\ reads = <<>> /\ datacube = NoCube)

\* a size mismatch has stopped the run
C7_Witness ==
    /\ pc = "check_failed" /\ raised = "Exception"
    /\ ~SizeMatches(args, num_bytes) /\ reads = <<>> /\ datacube = NoCube

(* ------------------ the main script on a long x axis ------------------- *)
\* runs whose x axis is longer, whose y axis is short and whose z axis is
\* one sample
GridArgs ==
    [method : data_methods, gravity : Gravities,
     Lh : {RInt(LhDefault)}, Lv : {LvDefault},
     nx : 1 .. MaxN + 1, ny : 1 .. MaxCount, nz : {1},
     nxsl : 1 .. MaxCount + 2, nysl : 1 .. MaxCount, nzsl : {1},
     nxoffset : 0 .. MaxOffset + 1, nyoffset : {0}, nzoffset : {0},
     nxskip : 1 .. MaxSkip + 1, nyskip : {1}, nzskip : {1}]

InitGrid ==
    /\ args \in GridArgs
    /\ num_bytes \in FileLengths(args)
    /\ pc = "start"
    /\ raised = "none"
    /\ handles = 0
    /\ reads = <<>>
    /\ datacube = NoCube
    /\ x = <<>>
    /\ y = <<>>
    /\ z = <<>>

SpecGrid == InitGrid /\ [][Next]_vars

\* the axes whose coordinates the run has computed, each with the arguments
\* get_1Dgrid was called with (get_data_box.py:91-101)
Axes ==
    (IF pc \in {"done", "grid_failed"}
     THEN {[L |-> args.Lh, n |-> args.nx, offset |-> args.nxoffset,
            sl |-> args.nxsl, skip |-> args.nxskip, grid |-> x]}
     ELSE {})
    \cup
    (IF pc = "done"
     THEN {[L |-> IF args.gravity = "y" THEN args.Lv ELSE args.Lh, n |-> args.ny,
            offset |-> args.nyoffset, sl |-> args.nysl, skip |-> args.nyskip, grid |-> y],
           [L |-> IF args.gravity = "z" THEN args.Lv ELSE args.Lh, n |-> args.nz,
            offset |-> args.nzoffset, sl |-> args.nzsl, skip |-> args.nzskip, grid |-> z]}
     ELSE {})

\* start = (L/n)*offset and end = start + (L/n)*count*stride of an axis
StartOf(ax) == RMul(RDivInt(ax.L, ax.n), RInt(ax.offset))
EndOf(ax) == RAdd(StartOf(ax), RMul(RDivInt(ax.L, ax.n), RInt(ax.sl * ax.skip)))

\* the values of g are evenly spaced
EvenlySpaced(g) ==
    \A i \in 1 .. Len(g) - 2 : RSub(g[i + 1], g[i]) = RSub(g[i + 2], g[i + 1])

\* C8 as stated: for every count >= 1 get_1Dgrid returns count evenly spaced
\* values, the first being start and the last being end.
C8_BothEndpoints ==
    \A ax \in Axes :
        /\ Len(ax.grid) = ax.sl
        /\ EvenlySpaced(ax.grid)
        /\ ax.grid[1] = StartOf(ax)
        /\ ax.grid[ax.sl] = EndOf(ax)

\* C8 amended: get_1Dgrid returns count evenly spaced values, the first being
\* start; the last is end when count >= 2, and when count = 1 the one value
\* returned is start, which is below end.
C8_EndpointsFromTwo ==
    \A ax \in Axes :
        /\ Len(ax.grid) = ax.sl
        /\ EvenlySpaced(ax.grid)
        /\ ax.grid[1] = StartOf(ax)
        /\ ax.sl >= 2 => ax.grid[ax.sl] = EndOf(ax)
        /\ ax.sl = 1 => (ax.grid = <<StartOf(ax)>> /\ RLess(StartOf(ax), EndOf(ax)))

\* a run has computed an x axis of three values from start to end, and a
\* y axis of one value
C8_Witness ==
    /\ pc = "done" /\ args.nxsl = 3 /\ args.nxoffset = 1 /\ args.nxskip = 2
    /\ args.nysl = 1
    /\ x[1] = RMul(RDivInt(args.Lh, args.nx), RInt(1))
    /\ x[3] = RMul(RDivInt(args.Lh, args.nx), RInt(7))
    /\ Len(y) = 1

\* C9: the i-th value get_1Dgrid returns is the physical position
\* (L/n)*(offset + i*stride) of the full-grid sample that the extractor
\* returns at logical index i of that axis.
C9_CoordinateOfSample ==
    \A ax \in Axes : \A i \in 0 .. ax.sl - 1 :
        ax.grid[i + 1] = RMul(RDivInt(ax.L, ax.n), RInt(ax.offset + i * ax.skip))

CallMethods == data_methods \cup {"mmap"}

\* funcs_data.py:58  the arguments of a call of get_data
CallArgs ==
    [method : CallMethods, gravity : {"y"},
     Lh : {RInt(LhDefault)}, Lv : {LvDefault},
     nx : 1 .. MaxN, ny : 1 .. MaxN, nz : 1 .. MaxN,
     nxsl : 1 .. MaxCount, nysl : 1 .. MaxCount, nzsl : 1 .. MaxCount,
     nxoffset : 0 .. MaxOffset, nyoffset : 0 .. MaxOffset, nzoffset : 0 .. MaxOffset,
     nxskip : 1 .. MaxSkip, nyskip : 1 .. MaxSkip, nzskip : 1 .. MaxSkip]

\* the byte lengths of the file that a call may find: those of FileLengths
\* and the lengths of a file that misses up to MaxMissing trailing samples
CallFileLengths(a) ==
    FileLengths(a) \cup
        {(a.nx * a.ny * a.nz - t) * nbyte : t \in 1 .. Min(MaxMissing, a.nx * a.ny * a.nz)}

\* a caller is about to call get_data; no check_data precedes the call, so
\* the file may be truncated
InitCall ==
    /\ args \in CallArgs
    /\ num_bytes \in CallFileLengths(args)
    /\ pc = "call"
    /\ raised = "none"
    /\ handles = 0
    /\ reads = <<>>
    /\ datacube = NoCube
    /\ x = <<>>
    /\ y = <<>>
    /\ z = <<>>

\* funcs_data.py:58-93  one call of get_data
CallGetData ==
    /\ pc = "call"
    /\ LET r == get_data(args.method, args, num_bytes)
       IN  /\ pc' = IF r.err = "none" THEN "returned" ELSE "call_failed"
           /\ raised' = r.err
           /\ handles' = handles + r.open
           /\ reads' = reads \o r.reads
           /\ datacube' = r.cube
    /\ UNCHANGED <<args, num_bytes, x, y, z>>

NextCall == CallGetData

SpecCall == InitCall /\ [][NextCall]_vars

\* what the call has left in the state is the outcome r of a strategy
OutcomeIs(r) ==
    /\ raised = r.err
    /\ reads = r.reads
    /\ handles = r.open
    /\ datacube = r.cube
    /\ pc = IF r.err = "none" THEN "returned" ELSE "call_failed"

\* C11: get_data with a method other than 'seek', 'memmap' or 'fromfile' fails
\* with NotImplementedError without opening or reading the file and without
\* returning a cube; with a recognized method it runs exactly the
\* corresponding strategy.
C11_Dispatch ==
    (pc # "call") =>
        /\ args.method \notin {"seek", "memmap", "fromfile"} =>
               /\ pc = "call_failed" /\ raised = "NotImplementedError"
               /\ reads = <<>> /\ handles = 0 /\ datacube = NoCube
        /\ args.method = "seek" => OutcomeIs(get_data_single_points(args, num_bytes))
        /\ args.method = "memmap" => OutcomeIs(get_data_memmap(args, num_bytes))
        /\ args.method = "fromfile" => OutcomeIs(get_data_fromfile(args, num_bytes))

\* a call with an unknown method has failed without touching the file
C11_Witness ==
    /\ pc = "call_failed" /\ args.method = "mmap" /\ raised = "NotImplementedError"
    /\ reads = <<>> /\ handles = 0 /\ datacube = NoCube

\* the byte position of the sample of logical coordinate (i, j, k):
\* nbyte*(offsetX + nx*(offsetY + ny*offsetZ)) + i*strideX*nbyte
\* + j*(nx*strideY)*nbyte + k*(nx*ny*strideZ)*nbyte
MappedPos(a, i, j, k) ==
    nbyte * (a.nxoffset + a.nx * (a.nyoffset + a.ny * a.nzoffset))
        + i * a.nxskip * nbyte
        + j * (a.nx * a.nyskip) * nbyte
        + k * (a.nx * a.ny * a.nzskip) * nbyte

\* the n-th read of a seek call is the read of nbyte bytes for the n-th
\* logical coordinate, x running fastest and z slowest
NthReadIsMapped(n) ==
    LET m == n - 1
        i == m % args.nxsl
        j == (m \div args.nxsl) % args.nysl
        k == m \div (args.nxsl * args.nysl)
    IN  reads[n] = <<MappedPos(args, i, j, k), nbyte>>

SeekCallOver == pc # "call" /\ args.method = "seek"

\* C12 as stated, on valid subcube specs: the seek strategy issues exactly
\* countX*countY*countZ reads of nbyte bytes, the read for (i, j, k) at the
\* mapped byte position.
C12_ExactlyCountReads ==
    (SeekCallOver /\ ValidSpec(args)) =>
        /\ Len(reads) = args.nxsl * args.nysl * args.nzsl
        /\ \A n \in 1 .. Len(reads) : NthReadIsMapped(n)

\* C12 amended: every read the seek strategy issues is a read of nbyte bytes
\* at the mapped byte position of its logical coordinate (the row shift starts
\* at 0 in every z-slice, the slice shift is never reset); a call that returns
\* has issued exactly countX*countY*countZ of them, and a call that raises
\* has issued them up to the first read that the file cannot fill.
C12_ReadsAtMappedPositions ==
    SeekCallOver =>
        /\ Len(reads) <= args.nxsl * args.nysl * args.nzsl
        /\ \A n \in 1 .. Len(reads) : NthReadIsMapped(n)
        /\ pc = "returned" => Len(reads) = args.nxsl * args.nysl * args.nzsl
        /\ pc = "call_failed" =>
               /\ Len(reads) >= 1
               /\ reads[Len(reads)][1] + nbyte > num_bytes
               /\ \A n \in 1 .. Len(reads) - 1 : reads[n][1] + nbyte <= num_bytes

\* a seek call with two samples and stride 2 on every axis of a 3 x 3 x 3
\* file has returned after eight reads; the fifth, the first of the second
\* slice, is at 4*18 and the last at 4*26
C12_Witness ==
    /\ pc = "returned" /\ args.method = "seek" /\ ValidSpec(args)
    /\ args.nxsl = 2 /\ args.nysl = 2 /\ args.nzsl = 2
    /\ args.nxskip = 2 /\ args.nyskip = 2 /\ args.nzskip = 2
    /\ Len(reads) = 8 /\ reads[5] = <<72, 4>> /\ reads[8] = <<104, 4>>

\* read request n lies inside the file described by the grid
ReadInsideFile(n) ==
    /\ reads[n][1] >= 0
    /\ reads[n][1] + reads[n][2] <= args.nx * args.ny * args.nz * nbyte

\* C13: for a valid grid and a valid subcube spec every read request of any
\* of the three strategies covers only bytes inside the file: its start and
\* its start plus its length lie within [0, nx*ny*nz*nbyte].
C13_ReadsInsideFile ==
    (AfterGetData /\ ValidSpec(args)) => \A n \in 1 .. Len(reads) : ReadInsideFile(n)

\* the part of C13 that the code keeps: the requests of the seek and the
\* memmap strategies, and the start of every request of fromfile
C13_SeekMemmapInsideFile ==
    (AfterGetData /\ ValidSpec(args)) =>
        \A n \in 1 .. Len(reads) :
            /\ reads[n][1] >= 0
            /\ reads[n][1] < args.nx * args.ny * args.nz * nbyte
            /\ args.method # "fromfile" => ReadInsideFile(n)
====
